---- MODULE Spec2Model ----
(***************************************************************************)
(* Role-based project manager: the permission model, the project store     *)
(* (three revisions of ProjectProvider) and the remote project table with  *)
(* its row-level policies.                                                  *)
(***************************************************************************)
EXTENDS Integers, Sequences, FiniteSets, TLC

VARIABLES
    impl,        \* which ProjectProvider revision the application mounts
    profiles,    \* remote profiles table: user id -> stored role
    names,       \* remote profiles table: user id -> stored name
    state,       \* AuthProvider state: user, token, isAuthenticated, isLoading
    session,     \* the auth service's session of this browser: the account id
    accounts,    \* the accounts the auth service knows (auth.users)
    stored,      \* mock revision: auth-token and auth-user in localStorage
    authCalls,   \* the AuthProvider calls and listener runs that are open
    authLast,    \* what the caller of the AuthProvider call that settled last saw
    nauth,       \* number of AuthProvider calls and page loads so far
    user,        \* session store: state.user as the providers read it
    db,          \* remote projects table (mock revision: the mockProjects array)
    projects,    \* ProjectProvider state: projects
    isLoading,   \* ProjectProvider state: isLoading
    calls,       \* the store calls that are open (awaiting the remote store or a timer)
    nsent,       \* number of createProject/updateProject/deleteProject calls made
    last,        \* what the caller of the store call that settled last observed
    created,     \* every project row ever inserted: its id and creator
    deleteAttempts, \* the deleteProject calls made: the id, and whether the caller
                 \* was an Editor who did not create the project
    now,         \* the clock read by NOW(), new Date() and Date.now()
    nextId,      \* next identifier gen_random_uuid() hands out
    permArgs,    \* arguments of a getProjectPermissions evaluation
    permRes,     \* its result in both revisions of the function
    page,        \* Projects page: its useState values
    fetches,     \* Projects page: the fetchProjects runs that are awaiting
    seen         \* Projects page: the provider state its effect last ran with

vars == <<impl, profiles, user, db, projects, isLoading, calls, nsent, last,
          created, deleteAttempts, now, nextId, permArgs, permRes, names,
          state, session, accounts, stored, authCalls, authLast, nauth,
          page, fetches, seen>>

storeVars == <<impl, profiles, user, db, projects, isLoading, calls, nsent, last,
               created, deleteAttempts, now, nextId>>
permVars  == <<permArgs, permRes>>
pageVars  == <<page, fetches, seen>>

\* what the project store's own calls never write
authVars == <<names, state, session, accounts, stored, authCalls, authLast, nauth>>

\* what the AuthProvider's calls never write
projectVars == <<impl, user, db, projects, isLoading, calls, nsent, last,
                 created, deleteAttempts, now, nextId>>

----------------------------------------------------------------------------
(* Values *)

Null == [isNull |-> TRUE]

Users == {"u1", "u2", "u3", "u4"}

UserRole == {"Admin", "Editor", "Viewer"}

\* a role value outside UserRole, as a profile row (role TEXT) can carry
OtherRole == "Guest"

User(id, role) == [id |-> id, role |-> role]

Project(id, title, content, createdBy, createdAt, updatedAt) ==
    [id |-> id, title |-> title, content |-> content, createdBy |-> createdBy,
     createdAt |-> createdAt, updatedAt |-> updatedAt]

\* a User as the AuthProvider holds it
AuthUser(id, email, name, role) ==
    [id |-> id, email |-> email, name |-> name, role |-> role]

AuthState(u, token, isAuthenticated, loading) ==
    [user |-> u, token |-> token, isAuthenticated |-> isAuthenticated,
     isLoading |-> loading]

initialState == AuthState(Null, Null, FALSE, TRUE)

\* the useState values of the Projects page
PageState(list, authors, progress, error, loading, complete) ==
    [projects |-> list, projectAuthors |-> authors, loadingProgress |-> progress,
     loadingError |-> error, isPageLoading |-> loading,
     initialLoadComplete |-> complete]

\* their initial values
initialPage == PageState(<<>>, {}, 0, Null, TRUE, FALSE)

\* the Projects page is not on the screen
PageIdle ==
    /\ page = initialPage
    /\ fetches = {}
    /\ seen = Null

\* the AuthProvider side before anything is mounted
AuthIdle ==
    /\ state = initialState
    /\ session = Null
    /\ accounts = {}
    /\ stored = Null
    /\ authCalls = {}
    /\ authLast = Null
    /\ nauth = 0

ProjectPermissions(v, e, d) == [canView |-> v, canEdit |-> e, canDelete |-> d]

----------------------------------------------------------------------------
(* Permission model *)

getProjectPermissions_AdminFirst(project, u) ==
    IF u = Null THEN ProjectPermissions(FALSE, FALSE, FALSE)
    ELSE IF u.role = "Admin" THEN ProjectPermissions(TRUE, TRUE, TRUE)
    ELSE IF project = Null THEN ProjectPermissions(FALSE, FALSE, FALSE)
    ELSE IF u.role = "Editor"
         THEN ProjectPermissions(TRUE, TRUE, project.createdBy = u.id)
    ELSE IF u.role = "Viewer" THEN ProjectPermissions(TRUE, FALSE, FALSE)
    ELSE ProjectPermissions(FALSE, FALSE, FALSE)

getProjectPermissions_AdminOwn(project, u) ==
    IF u = Null \/ project = Null THEN ProjectPermissions(FALSE, FALSE, FALSE)
    ELSE IF u.role = "Admin"
         THEN ProjectPermissions(TRUE, TRUE, project.createdBy = u.id)
    ELSE IF u.role = "Editor"
         THEN ProjectPermissions(TRUE, TRUE, project.createdBy = u.id)
    ELSE IF u.role = "Viewer" THEN ProjectPermissions(TRUE, FALSE, FALSE)
    ELSE ProjectPermissions(FALSE, FALSE, FALSE)

getProjectPermissions_EditorAny(project, u) ==
    IF u = Null \/ project = Null THEN ProjectPermissions(FALSE, FALSE, FALSE)
    ELSE IF u.role = "Admin" THEN ProjectPermissions(TRUE, TRUE, TRUE)
    ELSE IF u.role = "Editor" THEN ProjectPermissions(TRUE, TRUE, TRUE)
    ELSE IF u.role = "Viewer" THEN ProjectPermissions(TRUE, FALSE, FALSE)
    ELSE ProjectPermissions(FALSE, FALSE, FALSE)

getProjectPermissions_ViewerOwn(project, u) ==
    IF u = Null \/ project = Null THEN ProjectPermissions(FALSE, FALSE, FALSE)
    ELSE IF u.role = "Admin" THEN ProjectPermissions(TRUE, TRUE, TRUE)
    ELSE IF u.role = "Editor"
         THEN ProjectPermissions(TRUE, TRUE, project.createdBy = u.id)
    ELSE IF u.role = "Viewer"
         THEN ProjectPermissions(TRUE, project.createdBy = u.id, FALSE)
    ELSE ProjectPermissions(FALSE, FALSE, FALSE)

\* src/types/project.ts
getProjectPermissions(project, u) ==
    IF u = Null \/ project = Null THEN ProjectPermissions(FALSE, FALSE, FALSE)
    ELSE IF u.role = "Admin" THEN ProjectPermissions(TRUE, TRUE, TRUE)
    ELSE IF u.role = "Editor"
         THEN ProjectPermissions(TRUE, TRUE, project.createdBy = u.id)
    ELSE IF u.role = "Viewer" THEN ProjectPermissions(TRUE, FALSE, FALSE)
    ELSE ProjectPermissions(FALSE, FALSE, FALSE)

\* the revision kept in src/types/auth.ts: no test of the Viewer role, every
\* role that is neither Admin nor Editor gets the Viewer result
getProjectPermissionsMemo(project, u) ==
    IF u = Null \/ project = Null THEN ProjectPermissions(FALSE, FALSE, FALSE)
    ELSE IF u.role = "Admin" THEN ProjectPermissions(TRUE, TRUE, TRUE)
    ELSE IF u.role = "Editor"
         THEN ProjectPermissions(TRUE, TRUE, project.createdBy = u.id)
    ELSE ProjectPermissions(TRUE, FALSE, FALSE)

----------------------------------------------------------------------------
(* Bounds and inputs of the store model *)

\* createProject, updateProject and deleteProject calls made in a run
MaxCalls == 2

\* calls open at the same time
MaxPending == 1

\* title and content the create form and the edit form submit; the four
\* strings differ
CreateInputs == {<<"T1", "C1">>}

UpdateInputs == {<<"T2", "C2">>}

\* the id field of a call that names no project
NoSuchId == 0

Impls == {"features", "remote", "mock"}

----------------------------------------------------------------------------
(* Remote tables: row-level policies and queries *)

\* "Editor and Admin can insert projects"
InsertAllowed(uid) ==
    uid \in DOMAIN profiles /\ profiles[uid] \in {"Editor", "Admin"}

\* "Editor can update own projects", "Admin can update any project"
UpdateAllowed(uid, row) ==
    /\ uid \in DOMAIN profiles
    /\ \/ (row.created_by = uid /\ profiles[uid] = "Editor")
       \/ profiles[uid] = "Admin"

DeleteAllowed_AnyEditor(uid, row) ==
    uid \in DOMAIN profiles /\ profiles[uid] \in {"Editor", "Admin"}

\* "Editor can delete own projects", "Admin can delete any project"
DeleteAllowed(uid, row) ==
    /\ uid \in DOMAIN profiles
    /\ \/ (row.created_by = uid /\ profiles[uid] = "Editor")
       \/ profiles[uid] = "Admin"

\* a row of public.projects
Row(id, title, content, created_by, created_at, updated_at) ==
    [id |-> id, title |-> title, content |-> content, created_by |-> created_by,
     created_at |-> created_at, updated_at |-> updated_at]

formatProject_Swapped(data) ==
    Project(data.id, data.content, data.title, data.created_by, data.created_at,
            data.updated_at)

\* the Project the client makes of a row
formatProject(data) ==
    Project(data.id, data.title, data.content, data.created_by, data.created_at,
            data.updated_at)

IdsOf(rows) == {rows[i].id : i \in DOMAIN rows}

\* rows.find(p => p.id === id): the first match, or null
Find(rows, id) ==
    IF id \in IdsOf(rows)
    THEN rows[CHOOSE i \in DOMAIN rows :
                /\ rows[i].id = id
                /\ \A j \in DOMAIN rows : rows[j].id = id => i <= j]
    ELSE Null

IsSortedDesc(rows) ==
    \A i, j \in DOMAIN rows : i < j => rows[i].updated_at >= rows[j].updated_at

\* .order('updated_at', { ascending: false }): every order the database may
\* return, rows of equal updated_at in any order
OrderByUpdatedDesc(rows) ==
    {s \in {[i \in DOMAIN rows |-> rows[p[i]]] : p \in Permutations(DOMAIN rows)} :
        IsSortedDesc(s)}

----------------------------------------------------------------------------
(* Project store: the calls *)

checkPermission_ViewerAllowed(u, action) ==
    IF u = Null THEN "login" ELSE "none"

\* the error checkPermission throws, "none" when it returns
checkPermission(u, action) ==
    IF u = Null THEN "login"
    ELSE IF u.role = "Viewer" /\ action \in {"create", "update", "delete"}
         THEN "viewer"
    ELSE "none"

\* errors of the client's role and ownership checks
AuthorizationErrors == {"login", "viewer", "own"}

\* a call as it starts: n numbers the open calls from the oldest on, by is
\* the user its closure holds, ts the clock value it read; alone says that no createProject,
\* updateProject or deleteProject call was made while it was open; follows is
\* the project returned by the createProject that settled just before a
\* getProject of that project (no other call being open, and both calls
\* alone), existing the rows the table held when a getAllProjects started
NewCall(op, id, input, ts, e) ==
    [n |-> Cardinality(calls) + 1,
     op |-> op, id |-> id, title |-> input[1], content |-> input[2],
     by |-> IF op \in {"create", "update", "delete"} THEN user ELSE Null, ts |-> ts,
     phase |-> IF e = "none" THEN "sent" ELSE "done", alone |-> TRUE,
     remote |-> (e = "none" /\ impl # "mock"),
     err |-> e, value |-> Null, list |-> <<>>,
     follows |-> IF op = "getProject" /\ calls = {} /\ last # Null
                    /\ last.op = "create" /\ last.err = "none" /\ last.alone
                    /\ last.value.id = id
                 THEN last.value
                 ELSE Null,
     existing |-> IF op = "getAll" THEN IdsOf(db) ELSE {}]

Answered(c, e, v, l) ==
    [c EXCEPT !.phase = "answered", !.err = e, !.value = v, !.list = l]

Settled(c, e, v, l) ==
    [c EXCEPT !.phase = "done", !.err = e, !.value = v, !.list = l]

\* a settled call as its caller knows it: the title and content passed, the
\* error thrown ("none": it returned), the value or list returned, whether a
\* remote request was made
Outcome(c) ==
    [op |-> c.op, title |-> c.title, content |-> c.content, err |-> c.err,
     remote |-> c.remote, value |-> c.value, list |-> c.list,
     alone |-> c.alone, follows |-> c.follows, existing |-> c.existing]

\* the projects a view can address: every id that was handed out
KnownIds == {r.id : r \in created}

\* a getAllProjects call made by a fetchProjects run of the Projects page:
\* its id field names the run
FromPage(c) == c.op = "getAll" /\ c.id # NoSuchId

\* the calls the user's actions start are bounded
MayCall == Cardinality({c \in calls : ~FromPage(c)}) < MaxPending

Pending(c, op) == c \in calls /\ c.op = op /\ c.phase = "sent"

Arrived(c, op) == c \in calls /\ c.op = op /\ c.phase = "answered"

\* a call starts: it is open (the outcome of the call before it has been
\* consumed), or it has thrown or returned already and is the last settled call
Start(c) ==
    /\ c.op \in {"create", "update", "delete"} => nsent < MaxCalls
    /\ nsent' = IF c.op \in {"create", "update", "delete"} THEN nsent + 1 ELSE nsent
    /\ IF c.phase = "done"
       THEN last' = Outcome(c) /\ UNCHANGED calls
       ELSE /\ calls' = {IF c.op \in {"getAll", "getProject"} THEN o
                          ELSE [o EXCEPT !.alone = FALSE, !.follows = Null] :
                            o \in calls} \cup {c}
            /\ last' = Null

\* createProject up to its first await: setIsLoading(true), checkPermission,
\* then the remote insert (mock: the timer); a throw runs catch and finally
createProject(input) ==
    /\ MayCall
    /\ LET e == checkPermission(user, "create") IN
         /\ Start(NewCall("create", NoSuchId, input, 0, e))
         /\ isLoading' = (e = "none")
    /\ UNCHANGED <<impl, profiles, user, db, projects, now, nextId, created,
                   deleteAttempts, permVars, pageVars, authVars>>

\* updateProject up to its first await; the Supabase revisions read the clock
\* for updated_at before the request leaves
updateProject(id, input) ==
    /\ MayCall
    /\ LET e == checkPermission(user, "update")
           stamped == (e = "none" /\ impl # "mock") IN
         /\ Start(NewCall("update", id, input, IF stamped THEN now ELSE 0, e))
         /\ isLoading' = (e = "none")
         /\ now' = IF stamped THEN now + 1 ELSE now
    /\ UNCHANGED <<impl, profiles, user, db, projects, nextId, created,
                   deleteAttempts, permVars, pageVars, authVars>>

\* u is an Editor and id is a project somebody else created
ForeignEditor(u, id) ==
    /\ u # Null
    /\ u.role = "Editor"
    /\ \E r \in created : r.id = id /\ r.by # u.id

\* deleteProject up to its first await
deleteProject(id) ==
    /\ MayCall
    /\ LET e == checkPermission(user, "delete") IN
         /\ Start(NewCall("delete", id, <<"", "">>, 0, e))
         /\ isLoading' = (e = "none")
    /\ deleteAttempts' =
         deleteAttempts \cup {[id |-> id, foreign |-> ForeignEditor(user, id)]}
    /\ UNCHANGED <<impl, profiles, user, db, projects, now, nextId, created,
                   permVars, pageVars, authVars>>

\* getAllProjects up to its first await: no permission check
getAllProjects ==
    /\ MayCall
    /\ Start(NewCall("getAll", NoSuchId, <<"", "">>, 0, "none"))
    /\ isLoading' = TRUE
    /\ UNCHANGED <<impl, profiles, user, db, projects, now, nextId, created,
                   deleteAttempts, permVars, pageVars, authVars>>

\* getProject up to its first await: the features revision answers from the
\* local list when it holds the project
getProject(id) ==
    /\ MayCall
    /\ LET c == NewCall("getProject", id, <<"", "">>, 0, "none")
           localProject == Find(projects, id) IN
         Start(IF impl = "features" /\ localProject # Null
               THEN [Settled(c, "none", localProject, <<>>) EXCEPT !.remote = FALSE]
               ELSE c)
    /\ UNCHANGED <<impl, profiles, user, db, projects, isLoading, now, nextId,
                   created, deleteAttempts, permVars, pageVars, authVars>>

----------------------------------------------------------------------------
(* Remote store: what each request does to the projects table *)

\* the response is on its way to the client
Answer(c, r) == calls' = (calls \ {c}) \cup {r} /\ UNCHANGED last

\* the open calls once c is over
Without(c) ==
    {IF o.n > c.n THEN [o EXCEPT !.n = o.n - 1] ELSE o : o \in calls \ {c}}

\* the call is over: it returned or threw
Settle(c, r) == calls' = Without(c) /\ last' = Outcome(r)

\* .insert(newProject).select().single()
ServeInsert(c) ==
    /\ impl # "mock"
    /\ Pending(c, "create")
    /\ LET row == Row(nextId, c.title, c.content, c.by.id, now, now) IN
         IF InsertAllowed(c.by.id)
         THEN /\ db' = Append(db, row)
              /\ created' = created \cup {[id |-> row.id, by |-> row.created_by]}
              /\ nextId' = nextId + 1
              /\ now' = now + 1
              /\ Answer(c, Answered(c, "none", formatProject(row), <<>>))
         ELSE /\ Answer(c, Answered(c, "rls", Null, <<>>))
              /\ UNCHANGED <<db, created, nextId, now>>
    /\ UNCHANGED <<impl, profiles, user, projects, isLoading, nsent,
                   deleteAttempts, permVars, pageVars, authVars>>

ApplyUpdates_WithCreator(row, c) ==
    [row EXCEPT !.title = c.title, !.content = c.content, !.updated_at = c.ts,
                !.created_by = c.by.id]

\* updates = { title, content, updated_at } written over the row
ApplyUpdates(row, c) ==
    [row EXCEPT !.title = c.title, !.content = c.content, !.updated_at = c.ts]

\* .update(updates).eq('id', id).select().single(): the policies hide the rows
\* the caller may not update, and single() fails when no row comes back
ServeUpdate(c) ==
    /\ impl # "mock"
    /\ Pending(c, "update")
    /\ LET hit == {i \in DOMAIN db : db[i].id = c.id /\ UpdateAllowed(c.by.id, db[i])} IN
         IF hit # {}
         THEN LET i == CHOOSE i \in hit : TRUE
                  row == ApplyUpdates(db[i], c) IN
                /\ db' = [db EXCEPT ![i] = row]
                /\ Answer(c, Answered(c, "none", formatProject(row), <<>>))
         ELSE /\ Answer(c, Answered(c, "norows", Null, <<>>))
              /\ UNCHANGED db
    /\ UNCHANGED <<impl, profiles, user, projects, isLoading, nsent, created, deleteAttempts, now, nextId, permVars, pageVars, authVars>>

\* .delete().eq('id', id): deletes the rows the policies let the caller
\* delete and reports no error when there is none
ServeDelete(c) ==
    /\ impl # "mock"
    /\ Pending(c, "delete")
    /\ LET keep(row) == ~(row.id = c.id /\ DeleteAllowed(c.by.id, row)) IN
         db' = SelectSeq(db, keep)
    /\ Answer(c, Answered(c, "none", Null, <<>>))
    /\ UNCHANGED <<impl, profiles, user, projects, isLoading, nsent, created, deleteAttempts, now, nextId, permVars, pageVars, authVars>>

\* .select('*').order('updated_at', { ascending: false })
ServeSelectAll(c) ==
    /\ impl # "mock"
    /\ Pending(c, "getAll")
    /\ \E rows \in OrderByUpdatedDesc(db) :
         Answer(c, Answered(c, "none", Null,
                            [i \in DOMAIN rows |-> formatProject(rows[i])]))
    /\ UNCHANGED <<impl, profiles, user, db, projects, isLoading, nsent, created, deleteAttempts, now, nextId, permVars, pageVars, authVars>>

\* getProjectService: .select('*').eq('id', id).single(); an error or no
\* row makes getProject return null; the provider's state is not touched
ServeSelectOne(c) ==
    /\ impl # "mock"
    /\ Pending(c, "getProject")
    /\ LET data == Find(db, c.id) IN
         Settle(c, Settled(c, "none",
                           IF data = Null THEN Null ELSE formatProject(data), <<>>))
    /\ UNCHANGED <<impl, profiles, user, db, projects, isLoading, nsent, created, deleteAttempts, now, nextId, permVars, pageVars, authVars>>

\* the request does not reach the remote store, the client gets an error
RemoteFails(c) ==
    /\ impl # "mock"
    /\ c \in calls
    /\ c.phase = "sent"
    /\ IF c.op \in {"getProject", "getProjectWithAuthor"}
       THEN Settle(c, Settled(c, "network", Null, <<>>))
       ELSE Answer(c, Answered(c, "network", Null, <<>>))
    /\ UNCHANGED <<impl, profiles, user, db, projects, isLoading, nsent, created,
                   deleteAttempts, now, nextId, permVars, pageVars, authVars>>

----------------------------------------------------------------------------
(* Project store (Supabase revisions): the rest of each call, run when the *)
(* response arrives.  Only the features revision keeps the local list.     *)

\* prev => [formattedProject, ...prev]
Prepend(project, prev) == <<project>> \o prev

\* prev => prev.map(p => p.id === id ? formattedProject : p)
Replace(id, project, prev) ==
    [i \in DOMAIN prev |-> IF prev[i].id = id THEN project ELSE prev[i]]

\* prev => prev.filter(p => p.id !== id)
Remove(id, prev) == SelectSeq(prev, LAMBDA p : p.id # id)

createProjectSettled(c) ==
    /\ Arrived(c, "create")
    /\ Settle(c, Settled(c, c.err, c.value, <<>>))
    /\ projects' = IF c.err = "none" /\ impl = "features"
                   THEN Prepend(c.value, projects) ELSE projects
    /\ isLoading' = FALSE
    /\ UNCHANGED <<impl, profiles, user, db, nsent, created, deleteAttempts,
                   now, nextId, permVars, pageVars, authVars>>

updateProjectSettled(c) ==
    /\ Arrived(c, "update")
    /\ Settle(c, Settled(c, c.err, c.value, <<>>))
    /\ projects' = IF c.err = "none" /\ impl = "features"
                   THEN Replace(c.id, c.value, projects) ELSE projects
    /\ isLoading' = FALSE
    /\ UNCHANGED <<impl, profiles, user, db, nsent, created, deleteAttempts,
                   now, nextId, permVars, pageVars, authVars>>

deleteProjectSettled(c) ==
    /\ Arrived(c, "delete")
    /\ Settle(c, Settled(c, c.err, Null, <<>>))
    /\ projects' = IF c.err = "none" /\ impl = "features"
                   THEN Remove(c.id, projects) ELSE projects
    /\ isLoading' = FALSE
    /\ UNCHANGED <<impl, profiles, user, db, nsent, created, deleteAttempts,
                   now, nextId, permVars, pageVars, authVars>>

\* on an error getAllProjects returns []: getAllProjectsService throws and
\* the provider's catch returns [], or (swallowed) the service's later
\* revision returns [] itself and the provider stores that list
getAllProjectsReturns(c, swallowed) ==
    /\ Arrived(c, "getAll")
    /\ swallowed => (impl = "features" /\ c.err # "none")
    /\ Settle(c, Settled(c, c.err, Null, c.list))
    /\ projects' = IF impl = "features" /\ (c.err = "none" \/ swallowed)
                   THEN c.list ELSE projects
    /\ isLoading' = FALSE

\* a getAllProjects call made by anything but the Projects page returns
getAllProjectsSettled(c, swallowed) ==
    /\ ~FromPage(c)
    /\ getAllProjectsReturns(c, swallowed)
    /\ UNCHANGED <<impl, profiles, user, db, nsent, created, deleteAttempts,
                   now, nextId, permVars, pageVars, authVars>>

----------------------------------------------------------------------------
(* Project store (mock revision): the rest of each call, run when its     *)
(* timer fires; db is the module's mockProjects array                       *)

\* the error updateProject throws after its timer, "none" when it goes on
mockUpdateError(c, found) ==
    IF found = Null THEN "notfound"
    ELSE IF c.by.role = "Viewer" THEN "viewer"
    ELSE IF c.by.role = "Editor" /\ found.createdBy # c.by.id THEN "own"
    ELSE "none"

\* the error deleteProject throws after its timer, "none" when it goes on
mockDeleteError(c, found) ==
    IF found = Null THEN "notfound"
    ELSE IF c.by.role = "Editor" /\ found.createdBy # c.by.id THEN "own"
    ELSE "none"

mockCreateProject(c) ==
    /\ impl = "mock"
    /\ Pending(c, "create")
    /\ LET newProject == Project(now, c.title, c.content, c.by.id, now, now) IN
         /\ db' = Append(db, newProject)
         /\ projects' = db'
         /\ created' = created \cup {[id |-> newProject.id, by |-> newProject.createdBy]}
         /\ Settle(c, Settled(c, "none", newProject, <<>>))
    /\ now' = now + 1
    /\ isLoading' = FALSE
    /\ UNCHANGED <<impl, profiles, user, nsent, deleteAttempts, nextId, permVars, pageVars, authVars>>

mockUpdateProject(c) ==
    /\ impl = "mock"
    /\ Pending(c, "update")
    /\ LET found == Find(db, c.id)
           e == mockUpdateError(c, found)
           updatedProject == [found EXCEPT !.title = c.title, !.content = c.content,
                                           !.updatedAt = now] IN
         IF e = "none"
         THEN /\ db' = Replace(c.id, updatedProject, db)
              /\ projects' = db'
              /\ now' = now + 1
              /\ Settle(c, Settled(c, "none", updatedProject, <<>>))
         ELSE /\ Settle(c, Settled(c, e, Null, <<>>))
              /\ UNCHANGED <<db, projects, now>>
    /\ isLoading' = FALSE
    /\ UNCHANGED <<impl, profiles, user, nsent, created, deleteAttempts, nextId, permVars, pageVars, authVars>>

mockDeleteProject(c) ==
    /\ impl = "mock"
    /\ Pending(c, "delete")
    /\ LET e == mockDeleteError(c, Find(db, c.id)) IN
         IF e = "none"
         THEN /\ db' = Remove(c.id, db)
              /\ projects' = db'
              /\ Settle(c, Settled(c, "none", Null, <<>>))
         ELSE /\ Settle(c, Settled(c, e, Null, <<>>))
              /\ UNCHANGED <<db, projects>>
    /\ isLoading' = FALSE
    /\ UNCHANGED <<impl, profiles, user, nsent, created, deleteAttempts, now,
                   nextId, permVars, pageVars, authVars>>

\* returns [...mockProjects]; the provider's list is not set
mockGetAllProjects(c) ==
    /\ impl = "mock"
    /\ Pending(c, "getAll")
    /\ Settle(c, Settled(c, "none", Null, db))
    /\ isLoading' = FALSE
    /\ UNCHANGED <<impl, profiles, user, db, projects, nsent, created, deleteAttempts, now, nextId, permVars, pageVars, authVars>>

mockGetProject(c) ==
    /\ impl = "mock"
    /\ Pending(c, "getProject")
    /\ Settle(c, Settled(c, "none", Find(db, c.id), <<>>))
    /\ UNCHANGED <<impl, profiles, user, db, projects, isLoading, nsent, created, deleteAttempts, now, nextId, permVars, pageVars, authVars>>

----------------------------------------------------------------------------
(* Session store as the project store reads it *)

\* No open call reads the session again: each holds the user of the render
\* that started it.  The session therefore changes between calls only.

\* SIGNED_IN notification whose profile fetch finds the row
SignedIn(uid) ==
    /\ user = Null
    /\ uid \in DOMAIN profiles
    /\ calls = {}
    /\ user' = User(uid, profiles[uid])
    /\ last' = Null
    /\ UNCHANGED <<impl, profiles, db, projects, isLoading, calls, nsent,
                   created, deleteAttempts, now, nextId, permVars, pageVars, authVars>>

\* SIGNED_OUT notification
SignedOut ==
    /\ user # Null
    /\ calls = {}
    /\ user' = Null
    /\ last' = Null
    /\ UNCHANGED <<impl, profiles, db, projects, isLoading, calls, nsent,
                   created, deleteAttempts, now, nextId, permVars, pageVars, authVars>>

----------------------------------------------------------------------------
(* The store specification *)

\* the profiles the system starts with: one Admin, two Editors, one Viewer
\* the names they signed up with
InitialNames ==
    [u \in Users |-> CASE u = "u1" -> "Ada"
                       [] u = "u2" -> "Bo"
                       [] u = "u3" -> "Cy"
                       [] OTHER    -> "Di"]

InitialProfiles ==
    [u \in Users |-> CASE u = "u1" -> "Admin"
                       [] u = "u2" -> "Editor"
                       [] u = "u3" -> "Editor"
                       [] OTHER    -> "Viewer"]

Init ==
    /\ AuthIdle
    /\ PageIdle
    /\ impl \in Impls
    /\ profiles = InitialProfiles
    /\ names = InitialNames
    /\ user = Null
    /\ db = <<>>
    /\ projects = <<>>
    /\ isLoading = FALSE
    /\ calls = {}
    /\ nsent = 0
    /\ last = Null
    /\ created = {}
    /\ deleteAttempts = {}
    /\ now = 1
    /\ nextId = 1
    /\ permArgs = [project |-> Null, user |-> Null]
    /\ permRes = Null

Next ==
    \/ \E uid \in Users : SignedIn(uid)
    \/ SignedOut
    \/ \E input \in CreateInputs : createProject(input)
    \/ \E id \in KnownIds, input \in UpdateInputs : updateProject(id, input)
    \/ \E id \in KnownIds : deleteProject(id)
    \/ getAllProjects
    \/ \E id \in KnownIds : getProject(id)
    \/ \E c \in calls :
         \/ ServeInsert(c)
         \/ ServeUpdate(c)
         \/ ServeDelete(c)
         \/ ServeSelectAll(c)
         \/ ServeSelectOne(c)
         \/ RemoteFails(c)
         \/ createProjectSettled(c)
         \/ updateProjectSettled(c)
         \/ deleteProjectSettled(c)
         \/ \E swallowed \in BOOLEAN : getAllProjectsSettled(c, swallowed)
         \/ mockCreateProject(c)
         \/ mockUpdateProject(c)
         \/ mockDeleteProject(c)
         \/ mockGetAllProjects(c)
         \/ mockGetProject(c)

Spec == Init /\ [][Next]_vars

----------------------------------------------------------------------------
(* The permission function applied to every kind of argument *)

PermIds == Users

PermUserArgs ==
    {Null} \cup {User(i, r) : i \in PermIds, r \in UserRole \cup {OtherRole}}

PermProjectArgs ==
    {Null} \cup {Project(1, "T1", "C1", c, 1, 1) : c \in PermIds}

NoPermissions == ProjectPermissions(FALSE, FALSE, FALSE)

StoreIdle ==
    /\ impl = "features"
    /\ profiles = [u \in Users |-> "Viewer"]
    /\ names = InitialNames
    /\ user = Null
    /\ db = <<>>
    /\ projects = <<>>
    /\ isLoading = FALSE
    /\ calls = {}
    /\ nsent = 0
    /\ last = Null
    /\ created = {}
    /\ deleteAttempts = {}
    /\ now = 1
    /\ nextId = 1

PermIdle ==
    /\ permArgs = [project |-> Null, user |-> Null]
    /\ permRes = Null

PermInit ==
    /\ StoreIdle
    /\ AuthIdle
    /\ PageIdle
    /\ permArgs \in [project : PermProjectArgs, user : PermUserArgs]
    /\ permRes = Null

\* a view (ProjectDetail, Projects) evaluates the function on what it holds
PermEvaluate ==
    /\ permRes = Null
    /\ permRes' = [types |-> getProjectPermissions(permArgs.project, permArgs.user),
                   memo  |-> getProjectPermissionsMemo(permArgs.project, permArgs.user)]
    /\ UNCHANGED <<permArgs, storeVars, authVars, pageVars>>

PermNext == PermEvaluate

PermSpec == PermInit /\ [][PermNext]_vars

PermEvaluated == permRes # Null

\* C1: with a null user or a null project, whatever the other argument is,
\* getProjectPermissions returns canView = canEdit = canDelete = false.
C1_NullGivesNothing ==
    (PermEvaluated /\ (permArgs.user = Null \/ permArgs.project = Null))
        => (permRes.types = NoPermissions /\ permRes.memo = NoPermissions)

C1_Witness ==
    /\ PermEvaluated
    /\ permArgs.project = Null
    /\ permArgs.user # Null
    /\ permArgs.user.role = "Admin"
    /\ permRes.types = NoPermissions

\* C2: for a non-null project, whoever created it, an Admin gets
\* canView = canEdit = canDelete = true.
C2_AdminGetsAll ==
    (PermEvaluated /\ permArgs.user # Null /\ permArgs.project # Null
        /\ permArgs.user.role = "Admin")
        => (permRes.types = ProjectPermissions(TRUE, TRUE, TRUE)
            /\ permRes.memo = ProjectPermissions(TRUE, TRUE, TRUE))

C2_Witness ==
    /\ PermEvaluated
    /\ permArgs.user # Null /\ permArgs.project # Null
    /\ permArgs.user.role = "Admin"
    /\ permArgs.project.createdBy # permArgs.user.id
    /\ permRes.types.canDelete

\* C3: for a non-null project P and an Editor U, canView and canEdit are true
\* and canDelete is true exactly when P.createdBy = U.id.
C3_EditorDeletesOwn ==
    (PermEvaluated /\ permArgs.user # Null /\ permArgs.project # Null
        /\ permArgs.user.role = "Editor")
        => \A r \in {permRes.types, permRes.memo} :
              /\ r.canView
              /\ r.canEdit
              /\ r.canDelete <=> (permArgs.project.createdBy = permArgs.user.id)

C3_Witness ==
    /\ PermEvaluated
    /\ permArgs.user # Null /\ permArgs.project # Null
    /\ permArgs.user.role = "Editor"
    /\ permArgs.project.createdBy # permArgs.user.id
    /\ permRes.types.canEdit
    /\ ~permRes.types.canDelete

\* C4: for a non-null project, also one the user created, a Viewer gets
\* canView = true, canEdit = false, canDelete = false.
C4_ViewerOnlyViews ==
    (PermEvaluated /\ permArgs.user # Null /\ permArgs.project # Null
        /\ permArgs.user.role = "Viewer")
        => (permRes.types = ProjectPermissions(TRUE, FALSE, FALSE)
            /\ permRes.memo = ProjectPermissions(TRUE, FALSE, FALSE))

C4_Witness ==
    /\ PermEvaluated
    /\ permArgs.user # Null /\ permArgs.project # Null
    /\ permArgs.user.role = "Viewer"
    /\ permArgs.project.createdBy = permArgs.user.id
    /\ permRes.types = ProjectPermissions(TRUE, FALSE, FALSE)

\* C5: for a non-null project and a non-null user whose role is none of Admin,
\* Editor, Viewer, getProjectPermissions returns canView = canEdit = canDelete
\* = false (in every revision of the function).
C5_OtherRoleGetsNothing ==
    (PermEvaluated /\ permArgs.user # Null /\ permArgs.project # Null
        /\ permArgs.user.role \notin UserRole)
        => (permRes.types = NoPermissions /\ permRes.memo = NoPermissions)

----------------------------------------------------------------------------
(* Authorization of the store calls *)

\* C6: createProject called while nobody is signed in or the user is a Viewer
\* throws an authorization error at once: no insert is sent, and the projects
\* table and the local list stay as they were
C6_CreateRejected ==
    [][\A input \in CreateInputs :
         (createProject(input) /\ (user = Null \/ user.role = "Viewer")) =>
            /\ last' # Null
            /\ last'.op = "create"
            /\ last'.err \in AuthorizationErrors
            /\ ~last'.remote
            /\ calls' = calls
            /\ db' = db
            /\ projects' = projects]_vars

\* a Viewer's createProject has thrown while the table holds a project
C6_Witness ==
    /\ user # Null
    /\ user.role = "Viewer"
    /\ last # Null
    /\ last.op = "create"
    /\ last.err = "viewer"
    /\ ~last.remote
    /\ db # <<>>

\* C7: deleteProject(id) called by an Editor on a project somebody else
\* created sends no remote delete, and its call ends with an authorization
\* error thrown by the client
C7_ForeignDeleteStoppedByClient ==
    [][\A c \in calls :
         (c.op = "delete" /\ ForeignEditor(c.by, c.id) /\ c.id \in IdsOf(db)) =>
            /\ ~c.remote
            /\ (calls' = Without(c)) =>
                  (last' # Null /\ last'.err \in AuthorizationErrors)]_vars

\* the project r was created by an Editor, and every deleteProject call made
\* on it (there is one) came from an Editor who did not create it
OnlyForeignEditorsDeleted(r) ==
    /\ profiles[r.by] = "Editor"
    /\ [id |-> r.id, foreign |-> TRUE] \in deleteAttempts
    /\ [id |-> r.id, foreign |-> FALSE] \notin deleteAttempts

\* C8: a project an Editor created, and that only other Editors called
\* deleteProject on, is in the projects table, and a getAllProjects that
\* started when the project existed and was answered returns it
C8_ForeignDeleteKeepsProject ==
    \A r \in created :
        OnlyForeignEditorsDeleted(r) =>
           /\ r.id \in IdsOf(db)
           /\ (last # Null /\ last.op = "getAll" /\ last.err = "none"
                  /\ r.id \in last.existing)
                 => r.id \in IdsOf(last.list)

\* another Editor's deleteProject is over, and the getAllProjects made after
\* it has returned the project
C8_Witness ==
    /\ calls = {}
    /\ last # Null
    /\ last.op = "getAll"
    /\ last.err = "none"
    /\ \E r \in created :
          /\ OnlyForeignEditorsDeleted(r)
          /\ r.id \in last.existing
          /\ r.id \in IdsOf(last.list)

\* C9: updateProject throws an authorization error only when nobody is signed
\* in or the user is a Viewer; an Editor's updateProject sends the remote
\* update, on the Editor's own project and on anybody else's
C9_UpdateRejectedOnlyAbsentOrViewer ==
    (last # Null /\ last.op = "update") =>
       /\ last.err \in AuthorizationErrors => (user = Null \/ user.role = "Viewer")
       /\ (user # Null /\ user.role = "Editor" /\ impl # "mock") => last.remote

----------------------------------------------------------------------------
(* Round trip *)

\* C10: a createProject that succeeds returns a project with the title and
\* content passed and the caller as createdBy, and the getProject of its id
\* that follows returns a project with that title, content and createdBy
C10_CreateThenGet ==
    /\ (last # Null /\ last.op = "create" /\ last.err = "none") =>
          /\ user.role \in {"Admin", "Editor"}
          /\ last.value.title = last.title
          /\ last.value.content = last.content
          /\ last.value.createdBy = user.id
    /\ (last # Null /\ last.op = "getProject" /\ last.follows # Null
          /\ last.err = "none") =>
          /\ last.value # Null
          /\ last.value.id = last.follows.id
          /\ last.value.title = last.follows.title
          /\ last.value.content = last.follows.content
          /\ last.value.createdBy = user.id

\* the getProject made right after a createProject has returned the project
C10_Witness ==
    /\ last # Null
    /\ last.op = "getProject"
    /\ last.follows # Null
    /\ last.alone
    /\ last.err = "none"
    /\ last.value # Null
    /\ last.value.title = "T1"
    /\ user.role \in {"Admin", "Editor"}

----------------------------------------------------------------------------
(* A project with its author *)

\* the author part of a ProjectWithAuthor
Author(id, name, role) == [id |-> id, name |-> name, role |-> role]

\* { ...project, author }
ProjectWithAuthor(p, author) ==
    [id |-> p.id, title |-> p.title, content |-> p.content,
     createdBy |-> p.createdBy, createdAt |-> p.createdAt,
     updatedAt |-> p.updatedAt, author |-> author]

\* the author shown when the profile row is not there
UnknownAuthor(uid) == Author(uid, "Unknown user", "Viewer")

\* getProjectWithAuthor up to its first await: no permission check, and
\* isLoading is not touched
getProjectWithAuthor(id) ==
    /\ MayCall
    /\ Start(NewCall("getProjectWithAuthor", id, <<"", "">>, 0, "none"))
    /\ UNCHANGED <<impl, profiles, user, db, projects, isLoading, now, nextId,
                   created, deleteAttempts, permVars, pageVars, authVars>>

\* getProjectWithAuthorService, first request: the project row; no row makes
\* single() report an error and the call return null
ServeAuthorProject(c) ==
    /\ impl = "features"
    /\ Pending(c, "getProjectWithAuthor")
    /\ LET projectData == Find(db, c.id) IN
         IF projectData = Null
         THEN Settle(c, Settled(c, "none", Null, <<>>))
         ELSE Answer(c, Answered(c, "none", projectData, <<>>))
    /\ UNCHANGED <<impl, profiles, user, db, projects, isLoading, nsent, created,
                   deleteAttempts, now, nextId, permVars, pageVars, authVars>>

\* getProjectWithAuthorService, second request: the creator's profile row;
\* found tells whether the request brought one back (no row and a failed
\* request both leave profileData null)
ServeAuthorProfile(c, found) ==
    /\ impl = "features"
    /\ Arrived(c, "getProjectWithAuthor")
    /\ found => c.value.created_by \in DOMAIN profiles
    /\ LET uid == c.value.created_by
           author == IF found THEN Author(uid, names[uid], profiles[uid])
                     ELSE UnknownAuthor(uid) IN
         Settle(c, Settled(c, "none",
                           ProjectWithAuthor(formatProject(c.value), author), <<>>))
    /\ UNCHANGED <<impl, profiles, user, db, projects, isLoading, nsent, created,
                   deleteAttempts, now, nextId, permVars, pageVars, authVars>>

\* the earlier Supabase revision: one request that embeds the profile,
\* profiles:created_by (id, name, role); null when the embedded row is missing
ServeAuthorJoin(c) ==
    /\ impl = "remote"
    /\ Pending(c, "getProjectWithAuthor")
    /\ LET data == Find(db, c.id) IN
         IF data = Null \/ data.created_by \notin DOMAIN profiles
         THEN Settle(c, Settled(c, "none", Null, <<>>))
         ELSE LET uid == data.created_by IN
                Settle(c, Settled(c, "none",
                                  ProjectWithAuthor(formatProject(data),
                                      Author(uid, names[uid], profiles[uid])), <<>>))
    /\ UNCHANGED <<impl, profiles, user, db, projects, isLoading, nsent, created,
                   deleteAttempts, now, nextId, permVars, pageVars, authVars>>

\* the mock revision: getProject, then getAllUsers().find; profiles and names
\* stand for the mockUsers array, which never loses an entry
mockGetProjectWithAuthor(c) ==
    /\ impl = "mock"
    /\ Pending(c, "getProjectWithAuthor")
    /\ LET project == Find(db, c.id) IN
         IF project = Null \/ project.createdBy \notin DOMAIN profiles
         THEN Settle(c, Settled(c, "none", Null, <<>>))
         ELSE LET uid == project.createdBy IN
                Settle(c, Settled(c, "none",
                                  ProjectWithAuthor(project,
                                      Author(uid, names[uid], profiles[uid])), <<>>))
    /\ UNCHANGED <<impl, profiles, user, db, projects, isLoading, nsent, created,
                   deleteAttempts, now, nextId, permVars, pageVars, authVars>>

\* a profile row is deleted on the database side (the clients have no DELETE
\* policy on profiles; projects.created_by references auth.users, not profiles)
ProfileRemoved(uid) ==
    /\ impl # "mock"
    /\ uid \in DOMAIN profiles
    /\ profiles' = [u \in DOMAIN profiles \ {uid} |-> profiles[u]]
    /\ names' = [u \in DOMAIN names \ {uid} |-> names[u]]
    /\ UNCHANGED <<impl, user, db, projects, isLoading, calls, nsent, last,
                   created, deleteAttempts, now, nextId, permVars, pageVars>>
    /\ UNCHANGED <<state, session, accounts, stored, authCalls, authLast, nauth>>

\* profiles.role is TEXT NOT NULL without a CHECK: a row can be given a role
\* outside the three, in SQL or by a request under the UPDATE policy
ProfileRoleStored(uid) ==
    /\ impl # "mock"
    /\ uid \in DOMAIN profiles
    /\ profiles[uid] # OtherRole
    /\ profiles' = [profiles EXCEPT ![uid] = OtherRole]
    /\ UNCHANGED <<impl, user, db, projects, isLoading, calls, nsent, last,
                   created, deleteAttempts, now, nextId, permVars, pageVars, authVars>>

\* projects get created, profiles get deleted, projects are read with author
AuthorNext ==
    \/ \E uid \in Users : SignedIn(uid)
    \/ SignedOut
    \/ \E input \in CreateInputs : createProject(input)
    \/ \E id \in KnownIds : getProjectWithAuthor(id)
    \/ \E uid \in Users : ProfileRemoved(uid)
    \/ \E uid \in Users : ProfileRoleStored(uid)
    \/ \E c \in calls :
         \/ ServeInsert(c)
         \/ createProjectSettled(c)
         \/ mockCreateProject(c)
         \/ RemoteFails(c)
         \/ ServeAuthorProject(c)
         \/ \E found \in BOOLEAN : ServeAuthorProfile(c, found)
         \/ ServeAuthorJoin(c)
         \/ mockGetProjectWithAuthor(c)

AuthorSpec == Init /\ [][AuthorNext]_vars

\* C12: getProjectWithAuthor(id) of a project that exists and whose creator
\* has no profile row returns the project with the author 'Unknown user',
\* role Viewer, id the project's createdBy; it does not return null
C12_UnknownAuthorPlaceholder ==
    [][\A c \in calls :
         (/\ c.op = "getProjectWithAuthor"
          /\ calls' = Without(c)
          /\ last' # Null
          /\ last'.err = "none"
          /\ \E r \in created : /\ r.id = c.id
                                 /\ r.id \in IdsOf(db)
                                 /\ r.by \notin DOMAIN profiles)
         => /\ last'.value # Null
            /\ last'.value.id = c.id
            /\ \E r \in created : r.id = c.id /\ last'.value.author = UnknownAuthor(r.by)]_vars

----------------------------------------------------------------------------
(* Reads *)

\* most recently updated first
NewestFirst(list) ==
    \A i, j \in DOMAIN list : i < j => list[i].updatedAt >= list[j].updatedAt

\* C11: whoever is signed in, and with nobody signed in, a getAllProjects
\* that returns gives every project the collection held from the start of the
\* call on, in non-increasing order of updatedAt
C11_GetAllEverythingNewestFirst ==
    (last # Null /\ last.op = "getAll" /\ last.err = "none") =>
       /\ (last.existing \cap IdsOf(db)) \subseteq IdsOf(last.list)
       /\ NewestFirst(last.list)

----------------------------------------------------------------------------
(* The local list *)

\* C13: when the remote call of createProject, updateProject, deleteProject
\* or getAllProjects fails, the step that ends the call leaves the local
\* project list as it was and sets isLoading to false
C13_FailureKeepsList ==
    [][\A c \in calls :
         (/\ c.op \in {"create", "update", "delete", "getAll"}
          /\ c.phase = "answered"
          /\ c.err # "none"
          /\ calls' = Without(c))
         => (projects' = projects /\ isLoading' = FALSE)]_vars

\* the remote collection as Projects (the mock array holds Projects already)
Collection ==
    IF impl = "mock" THEN db ELSE [i \in DOMAIN db |-> formatProject(db[i])]

\* C14: when a createProject, updateProject or deleteProject has succeeded
\* (this client being the only writer, and no other call open), the local
\* list holds exactly the projects of the remote collection: the same ids,
\* each with the title, content and updatedAt of its row
C14_ListMirrorsCollection ==
    (last # Null /\ last.op \in {"create", "update", "delete"}
       /\ last.err = "none" /\ last.alone /\ calls = {}) =>
       /\ IdsOf(projects) = IdsOf(Collection)
       /\ \A i \in DOMAIN projects :
             LET row == Find(Collection, projects[i].id) IN
               /\ projects[i].title = row.title
               /\ projects[i].content = row.content
               /\ projects[i].updatedAt = row.updatedAt

----------------------------------------------------------------------------
(* What an update leaves alone *)

\* C15: no step changes the createdBy or the createdAt of a project of the
\* collection: a project found under the same id after the step has them as
\* before, so an updateProject changes title, content and updatedAt only
C15_CreatorImmutable ==
    [][\A i \in DOMAIN Collection : \A j \in DOMAIN Collection' :
         Collection[i].id = Collection'[j].id =>
            /\ Collection'[j].createdBy = Collection[i].createdBy
            /\ Collection'[j].createdAt = Collection[i].createdAt]_vars

\* somebody who did not create the project has updated it
C15_Witness ==
    /\ last # Null
    /\ last.op = "update"
    /\ last.err = "none"
    /\ last.value.createdBy # user.id
    /\ \E i \in DOMAIN Collection :
          /\ Collection[i].id = last.value.id
          /\ Collection[i].title = "T2"
          /\ Collection[i].createdBy = last.value.createdBy
          /\ Collection[i].updatedAt > Collection[i].createdAt

----------------------------------------------------------------------------
(* Session store (AuthProvider): values and calls *)

\* login, signup, logout, updateUser calls and page loads in a run
MaxAuthCalls == 3
MaxAuthPending == 2

\* the people who sign up, with the e-mail addresses they use
Accounts == {"u1", "u2"}

Emails == [u \in Accounts |-> IF u = "u1" THEN "ada@x.io" ELSE "bo@x.io"]

\* session.access_token (mock revision: the token mockLogin makes up)
Token(uid) == [of |-> uid]

\* a table without rows
EmptyTable == [u \in {} |-> ""]

\* errors the auth service answers with
ServiceErrors == {"credentials", "registered", "network"}

\* an AuthProvider call as it starts: n numbers the open calls from the oldest
\* on, uid and good are the credentials (whose account, right password or
\* not), upd the user passed to updateUser, tries the sign-in requests made
AuthCall(op, uid, good, upd) ==
    [n |-> Cardinality(authCalls) + 1, op |-> op, uid |-> uid, good |-> good,
     upd |-> upd, phase |-> "sent", err |-> "none",
     tries |-> IF op = "login" THEN 1 ELSE 0]

\* the open calls once c is over
AuthWithout(c) ==
    {IF o.n > c.n THEN [o EXCEPT !.n = o.n - 1] ELSE o : o \in authCalls \ {c}}

AuthOutcome(c, e) == [op |-> c.op, uid |-> c.uid, err |-> e, tries |-> c.tries]

\* c is over: it returned (e = "none") or threw e
AuthSettle(c, e) ==
    /\ authCalls' = AuthWithout(c)
    /\ authLast' = AuthOutcome(c, e)

\* the service has answered c; the rest of the call runs later
AuthAnswer(c, e) ==
    /\ authCalls' = (authCalls \ {c}) \cup {[c EXCEPT !.phase = "answered", !.err = e]}
    /\ UNCHANGED authLast

\* the calls the application starts are bounded, and so are the open ones
MayAuth == nauth < MaxAuthCalls /\ Cardinality(authCalls) < MaxAuthPending

AuthStart(c) ==
    /\ MayAuth
    /\ nauth' = nauth + 1
    /\ authCalls' = authCalls \cup {c}
    /\ authLast' = Null

AuthFrame == UNCHANGED <<projectVars, permVars, pageVars>>

Authenticated(u, token) == AuthState(u, token, TRUE, FALSE)

\* { ...initialState, isLoading: false }
SignedOutState == AuthState(Null, Null, FALSE, FALSE)

\* the User made of a profile row and the account's e-mail address
ProfileUser(uid) == AuthUser(uid, Emails[uid], names[uid], profiles[uid])

WithRow(table, uid, v) ==
    [u \in DOMAIN table \cup {uid} |-> IF u = uid THEN v ELSE table[u]]

----------------------------------------------------------------------------
(* Session store: page load *)

\* checkSession, after getSession: no session or an error ends it signed out
SessionChecked(c, reachable) ==
    /\ impl # "mock"
    /\ c \in authCalls /\ c.op = "checkSession" /\ c.phase = "sent"
    /\ IF reachable /\ session # Null
       THEN /\ authCalls' = (authCalls \ {c}) \cup
                               {[c EXCEPT !.phase = "profile", !.uid = session.uid]}
            /\ UNCHANGED <<state, authLast>>
       ELSE /\ state' = SignedOutState
            /\ AuthSettle(c, IF reachable THEN "none" ELSE "network")
    /\ UNCHANGED <<profiles, names, session, accounts, stored, nauth>>
    /\ AuthFrame

\* checkSession, after fetchUserProfile: found tells whether it returned a
\* profile (an error and no row both make it return null)
SessionProfile(c, found) ==
    /\ impl # "mock"
    /\ c \in authCalls /\ c.op = "checkSession" /\ c.phase = "profile"
    /\ found => c.uid \in DOMAIN profiles
    /\ state' = IF found THEN Authenticated(ProfileUser(c.uid), Token(c.uid))
                ELSE SignedOutState
    /\ AuthSettle(c, IF found THEN "none" ELSE "noprofile")
    /\ UNCHANGED <<profiles, names, session, accounts, stored, nauth>>
    /\ AuthFrame

\* mock revision: the mount effect reads localStorage and puts the stored
\* user back into mockUsers (profiles, names and accounts stand for it)
mockCheckStored(c) ==
    /\ impl = "mock"
    /\ c \in authCalls /\ c.op = "checkSession"
    /\ IF stored # Null
       THEN LET u == stored.user IN
              /\ state' = Authenticated(u, stored.token)
              /\ IF u.id \in DOMAIN profiles
                 THEN UNCHANGED <<profiles, names, accounts>>
                 ELSE /\ profiles' = WithRow(profiles, u.id, u.role)
                      /\ names' = WithRow(names, u.id, u.name)
                      /\ accounts' = accounts \cup {u.id}
       ELSE /\ state' = SignedOutState
            /\ UNCHANGED <<profiles, names, accounts>>
    /\ AuthSettle(c, "none")
    /\ UNCHANGED <<session, stored, nauth>>
    /\ AuthFrame

\* the page is loaded again: the provider starts over and checks the session;
\* the auth service's session and localStorage stay, the mock revision's
\* mockUsers array is empty again
Reload ==
    /\ nauth < MaxAuthCalls
    /\ nauth' = nauth + 1
    /\ state' = initialState
    /\ authCalls' = {[AuthCall("checkSession", "", FALSE, Null) EXCEPT !.n = 1]}
    /\ authLast' = Null
    /\ IF impl = "mock"
       THEN profiles' = EmptyTable /\ names' = EmptyTable /\ accounts' = {}
       ELSE UNCHANGED <<profiles, names, accounts>>
    /\ UNCHANGED <<session, stored>>
    /\ AuthFrame

----------------------------------------------------------------------------
(* Session store: login and signup *)

loginFailed_SignsOut(prev) == SignedOutState

\* the catch of login: setState(prev => ({ ...prev, isLoading: false }))
loginFailed(prev) == [prev EXCEPT !.isLoading = FALSE]

\* login up to its await: isLoading is set, one sign-in request leaves
login(uid, good) ==
    /\ AuthStart(AuthCall("login", uid, good, Null))
    /\ state' = [state EXCEPT !.isLoading = TRUE]
    /\ UNCHANGED <<profiles, names, session, accounts, stored>>
    /\ AuthFrame

\* supabase.auth.signInWithPassword: a session and a SIGNED_IN notification,
\* or an error
SignInServed(c, reachable) ==
    /\ impl # "mock"
    /\ c \in authCalls /\ c.op = "login" /\ c.phase = "sent"
    /\ IF reachable /\ c.uid \in accounts /\ c.good
       THEN /\ session' = [uid |-> c.uid]
            /\ authCalls' = (authCalls \ {c}) \cup
                 {[c EXCEPT !.phase = "answered"],
                  [AuthCall("SIGNED_IN", c.uid, TRUE, Null) EXCEPT !.n = Cardinality(authCalls) + 1]}
            /\ UNCHANGED authLast
       ELSE /\ AuthAnswer(c, IF reachable THEN "credentials" ELSE "network")
            /\ UNCHANGED session
    /\ UNCHANGED <<profiles, names, state, accounts, stored, nauth>>
    /\ AuthFrame

\* login after its await: a toast, or the catch, which rethrows
loginSettled(c) ==
    /\ impl # "mock"
    /\ c \in authCalls /\ c.op = "login" /\ c.phase = "answered"
    /\ state' = IF c.err = "none" THEN state ELSE loginFailed(state)
    /\ AuthSettle(c, c.err)
    /\ UNCHANGED <<profiles, names, session, accounts, stored, nauth>>
    /\ AuthFrame

\* the onAuthStateChange listener on SIGNED_IN: the state is set when
\* fetchUserProfile returns a profile, and left alone when it does not
SignedInNotified(c, found) ==
    /\ impl # "mock"
    /\ c \in authCalls /\ c.op = "SIGNED_IN"
    /\ found => c.uid \in DOMAIN profiles
    /\ state' = IF found THEN Authenticated(ProfileUser(c.uid), Token(c.uid))
                ELSE state
    /\ authCalls' = AuthWithout(c)
    /\ UNCHANGED <<profiles, names, session, accounts, stored, authLast, nauth>>
    /\ AuthFrame

\* mock revision: mockLogin looks the e-mail address up in mockUsers and
\* does not look at the password
mockLoginDone(c) ==
    /\ impl = "mock"
    /\ c \in authCalls /\ c.op = "login"
    /\ IF c.uid \in DOMAIN profiles
       THEN /\ stored' = [token |-> Token(c.uid), user |-> ProfileUser(c.uid)]
            /\ state' = Authenticated(ProfileUser(c.uid), Token(c.uid))
            /\ AuthSettle(c, "none")
       ELSE /\ state' = loginFailed(state)
            /\ AuthSettle(c, "credentials")
            /\ UNCHANGED stored
    /\ UNCHANGED <<profiles, names, session, accounts, nauth>>
    /\ AuthFrame

NewUserRole_AlwaysAdmin(table) == "Admin"

\* handle_new_user: the first profile gets Admin, everyone else Viewer
NewUserRole(table) == IF DOMAIN table = {} THEN "Admin" ELSE "Viewer"

\* signup up to its await
signup(uid) ==
    /\ AuthStart(AuthCall("signup", uid, TRUE, Null))
    /\ state' = [state EXCEPT !.isLoading = TRUE]
    /\ UNCHANGED <<profiles, names, session, accounts, stored>>
    /\ AuthFrame

\* supabase.auth.signUp: the account row and, by the on_auth_user_created
\* trigger, its profile; no session before the e-mail address is confirmed
SignUpServed(c, reachable) ==
    /\ impl # "mock"
    /\ c \in authCalls /\ c.op = "signup" /\ c.phase = "sent"
    /\ IF reachable /\ c.uid \notin accounts
       THEN /\ accounts' = accounts \cup {c.uid}
            /\ profiles' = WithRow(profiles, c.uid, NewUserRole(profiles))
            /\ names' = WithRow(names, c.uid, InitialNames[c.uid])
            /\ AuthAnswer(c, "none")
       ELSE /\ AuthAnswer(c, IF reachable THEN "registered" ELSE "network")
            /\ UNCHANGED <<accounts, profiles, names>>
    /\ UNCHANGED <<state, session, stored, nauth>>
    /\ AuthFrame

\* signup after its await: isLoading is cleared either way
signupSettled(c) ==
    /\ impl # "mock"
    /\ c \in authCalls /\ c.op = "signup" /\ c.phase = "answered"
    /\ state' = [state EXCEPT !.isLoading = FALSE]
    /\ AuthSettle(c, c.err)
    /\ UNCHANGED <<profiles, names, session, accounts, stored, nauth>>
    /\ AuthFrame

\* mock revision: mockSignup and the rest of signup
mockSignupDone(c) ==
    /\ impl = "mock"
    /\ c \in authCalls /\ c.op = "signup"
    /\ IF c.uid \in DOMAIN profiles
       THEN /\ state' = [state EXCEPT !.isLoading = FALSE]
            /\ AuthSettle(c, "registered")
            /\ UNCHANGED <<profiles, names, accounts, stored>>
       ELSE LET newUser == AuthUser(c.uid, Emails[c.uid], InitialNames[c.uid],
                                    NewUserRole(profiles)) IN
              /\ profiles' = WithRow(profiles, c.uid, newUser.role)
              /\ names' = WithRow(names, c.uid, newUser.name)
              /\ accounts' = accounts \cup {c.uid}
              /\ stored' = [token |-> Token(c.uid), user |-> newUser]
              /\ state' = Authenticated(newUser, Token(c.uid))
              /\ AuthSettle(c, "none")
    /\ UNCHANGED <<session, nauth>>
    /\ AuthFrame

----------------------------------------------------------------------------
(* Session store: logout and updateUser *)

\* logout up to its await (Supabase revision)
logout ==
    /\ impl # "mock"
    /\ AuthStart(AuthCall("logout", "", TRUE, Null))
    /\ UNCHANGED <<profiles, names, state, session, accounts, stored>>
    /\ AuthFrame

\* supabase.auth.signOut: the session ends and SIGNED_OUT is notified, or an
\* error comes back and the session stays
SignOutServed(c, reachable) ==
    /\ impl # "mock"
    /\ c \in authCalls /\ c.op = "logout" /\ c.phase = "sent"
    /\ IF reachable
       THEN /\ session' = Null
            /\ authCalls' = (authCalls \ {c}) \cup
                 {[c EXCEPT !.phase = "answered"],
                  AuthCall("SIGNED_OUT", "", TRUE, Null)}
            /\ UNCHANGED authLast
       ELSE /\ AuthAnswer(c, "network")
            /\ UNCHANGED session
    /\ UNCHANGED <<profiles, names, state, accounts, stored, nauth>>
    /\ AuthFrame

\* logout after its await: the state is cleared when signOut reported no
\* error; the catch logs, toasts and returns (e is what signOut reported)
logoutSettled(c) ==
    /\ impl # "mock"
    /\ c \in authCalls /\ c.op = "logout" /\ c.phase = "answered"
    /\ state' = IF c.err = "none" THEN SignedOutState ELSE state
    /\ AuthSettle(c, c.err)
    /\ UNCHANGED <<profiles, names, session, accounts, stored, nauth>>
    /\ AuthFrame

\* the onAuthStateChange listener on SIGNED_OUT
SignedOutNotified(c) ==
    /\ impl # "mock"
    /\ c \in authCalls /\ c.op = "SIGNED_OUT"
    /\ state' = SignedOutState
    /\ authCalls' = AuthWithout(c)
    /\ UNCHANGED <<profiles, names, session, accounts, stored, authLast, nauth>>
    /\ AuthFrame

\* mock revision: logout is synchronous
mockLogout ==
    /\ impl = "mock"
    /\ MayAuth
    /\ nauth' = nauth + 1
    /\ stored' = Null
    /\ state' = SignedOutState
    /\ authLast' = AuthOutcome(AuthCall("logout", "", TRUE, Null), "none")
    /\ UNCHANGED <<profiles, names, session, accounts, authCalls>>
    /\ AuthFrame

\* the users the profile form submits: a new name and a role
UpdatedUsers == {AuthUser(u, Emails[u], "Zed", "Editor") : u \in Accounts}

\* updateUser up to its await (Supabase revision): it returns at once when
\* nobody is signed in or the user passed is somebody else
updateUser(upd) ==
    /\ impl # "mock"
    /\ MayAuth
    /\ nauth' = nauth + 1
    /\ LET c == AuthCall("updateUser", upd.id, TRUE, upd) IN
         IF state.user = Null \/ state.user.id # upd.id
         THEN authLast' = AuthOutcome(c, "none") /\ UNCHANGED authCalls
         ELSE authCalls' = authCalls \cup {c} /\ authLast' = Null
    /\ UNCHANGED <<profiles, names, state, session, accounts, stored>>
    /\ AuthFrame

\* "Users can update their own profile", "Admin users can update any profile"
ProfileUpdateAllowed(s, id) ==
    /\ s # Null
    /\ s.uid \in DOMAIN profiles
    /\ (s.uid = id \/ profiles[s.uid] = "Admin")

\* .from('profiles').update({ name, role }).eq('id', id): the rows the
\* policies let the session's user update; no row is no error
ProfileUpdateServed(c, reachable) ==
    /\ impl # "mock"
    /\ c \in authCalls /\ c.op = "updateUser" /\ c.phase = "sent"
    /\ IF reachable /\ c.uid \in DOMAIN profiles /\ ProfileUpdateAllowed(session, c.uid)
       THEN /\ profiles' = [profiles EXCEPT ![c.uid] = c.upd.role]
            /\ names' = [names EXCEPT ![c.uid] = c.upd.name]
       ELSE UNCHANGED <<profiles, names>>
    /\ AuthAnswer(c, IF reachable THEN "none" ELSE "network")
    /\ UNCHANGED <<state, session, accounts, stored, nauth>>
    /\ AuthFrame

\* updateUser after its await: setState(prev => ({ ...prev, user: updatedUser }))
updateUserSettled(c) ==
    /\ impl # "mock"
    /\ c \in authCalls /\ c.op = "updateUser" /\ c.phase = "answered"
    /\ state' = IF c.err = "none" THEN [state EXCEPT !.user = c.upd] ELSE state
    /\ AuthSettle(c, c.err)
    /\ UNCHANGED <<profiles, names, session, accounts, stored, nauth>>
    /\ AuthFrame

\* mock revision: updateUser is synchronous; the mockUsers entry with the
\* id passed is replaced whoever is signed in
mockUpdateUser(upd) ==
    /\ impl = "mock"
    /\ MayAuth
    /\ nauth' = nauth + 1
    /\ IF upd.id \in DOMAIN profiles
       THEN /\ profiles' = [profiles EXCEPT ![upd.id] = upd.role]
            /\ names' = [names EXCEPT ![upd.id] = upd.name]
       ELSE UNCHANGED <<profiles, names>>
    /\ IF state.user # Null /\ state.user.id = upd.id
       THEN /\ stored' = [token |-> IF stored = Null THEN Null ELSE stored.token,
                          user |-> upd]
            /\ state' = [state EXCEPT !.user = upd]
       ELSE UNCHANGED <<stored, state>>
    /\ authLast' = AuthOutcome(AuthCall("updateUser", upd.id, TRUE, upd), "none")
    /\ UNCHANGED <<session, accounts, authCalls>>
    /\ AuthFrame

\* the role the user management page assigns
AssignedRoles == {"Admin"}

\* updateUserRole(userId, newRole, currentUser) up to its await, called by
\* the user management page with the session store's user: it throws at
\* once unless that user's role is Admin
updateUserRole(uid, newRole) ==
    /\ impl # "mock"
    /\ state.user # Null
    /\ MayAuth
    /\ nauth' = nauth + 1
    /\ LET c == AuthCall("updateUserRole", uid, TRUE,
                         AuthUser(uid, "", "", newRole)) IN
         IF state.user.role # "Admin"
         THEN authLast' = AuthOutcome(c, "notadmin") /\ UNCHANGED authCalls
         ELSE authCalls' = authCalls \cup {c} /\ authLast' = Null
    /\ UNCHANGED <<profiles, names, state, session, accounts, stored>>
    /\ AuthFrame

\* .from('profiles').update({ role }).eq('id', userId).select().single():
\* the row is updated when the policies let the session's user do it; no
\* row back is an error; updateUserRole returns the row or rethrows
RoleUpdateServed(c, reachable) ==
    /\ impl # "mock"
    /\ c \in authCalls /\ c.op = "updateUserRole" /\ c.phase = "sent"
    /\ IF reachable /\ c.uid \in DOMAIN profiles /\ ProfileUpdateAllowed(session, c.uid)
       THEN /\ profiles' = [profiles EXCEPT ![c.uid] = c.upd.role]
            /\ AuthSettle(c, "none")
       ELSE /\ AuthSettle(c, IF reachable THEN "norows" ELSE "network")
            /\ UNCHANGED profiles
    /\ UNCHANGED <<names, state, session, accounts, stored, nauth>>
    /\ AuthFrame

----------------------------------------------------------------------------
(* The session store specification *)

\* a page load without a session: of a system without accounts and
\* profiles, or (Supabase revision) of one whose first user has signed up
AuthInit ==
    /\ impl \in {"features", "mock"}
    /\ accounts \in {{}, {"u1"}}
    /\ impl = "mock" => accounts = {}
    /\ profiles = [u \in accounts |-> NewUserRole(EmptyTable)]
    /\ names = [u \in accounts |-> InitialNames[u]]
    /\ state = initialState
    /\ session = Null
    /\ stored = Null
    /\ authCalls = {[n |-> 1, op |-> "checkSession", uid |-> "", good |-> FALSE,
                     upd |-> Null, phase |-> "sent", err |-> "none", tries |-> 0]}
    /\ authLast = Null
    /\ nauth = 0
    /\ user = Null
    /\ db = <<>>
    /\ projects = <<>>
    /\ isLoading = FALSE
    /\ calls = {}
    /\ nsent = 0
    /\ last = Null
    /\ created = {}
    /\ deleteAttempts = {}
    /\ now = 1
    /\ nextId = 1
    /\ permArgs = [project |-> Null, user |-> Null]
    /\ permRes = Null
    /\ PageIdle

AuthNext ==
    \/ Reload
    \/ \E uid \in Accounts, good \in BOOLEAN : login(uid, good)
    \/ \E uid \in Accounts : signup(uid)
    \/ logout
    \/ mockLogout
    \/ \E upd \in UpdatedUsers : updateUser(upd)
    \/ \E upd \in UpdatedUsers : mockUpdateUser(upd)
    \/ \E uid \in Accounts, newRole \in AssignedRoles : updateUserRole(uid, newRole)
    \/ \E c \in authCalls :
         \/ mockCheckStored(c)
         \/ mockLoginDone(c)
         \/ mockSignupDone(c)
         \/ loginSettled(c)
         \/ signupSettled(c)
         \/ logoutSettled(c)
         \/ updateUserSettled(c)
         \/ SignedOutNotified(c)
         \/ \E found \in BOOLEAN : SessionProfile(c, found)
         \/ \E found \in BOOLEAN : SignedInNotified(c, found)
         \/ \E reachable \in BOOLEAN :
              \/ SessionChecked(c, reachable)
              \/ SignInServed(c, reachable)
              \/ SignUpServed(c, reachable)
              \/ SignOutServed(c, reachable)
              \/ ProfileUpdateServed(c, reachable)
              \/ RoleUpdateServed(c, reachable)

AuthSpec == AuthInit /\ [][AuthNext]_vars

----------------------------------------------------------------------------
(* Session store: properties *)

\* user, token and isAuthenticated are the same in s and t
SameIdentity(s, t) ==
    /\ s.user = t.user
    /\ s.token = t.token
    /\ s.isAuthenticated = t.isAuthenticated

\* this step ends the open call c with error or success
AuthEnds(c) ==
    /\ authCalls' = AuthWithout(c)
    /\ authLast' # Null
    /\ authLast' = AuthOutcome(c, authLast'.err)

\* C16: when the auth service rejects the sign-in, login rethrows the
\* service's error after exactly one sign-in request, leaves user, token and
\* isAuthenticated as they were and sets isLoading to false; starting the
\* login does not touch user, token and isAuthenticated either
C16_LoginRejected ==
    [][/\ (\E uid \in Accounts, good \in BOOLEAN : login(uid, good))
             => SameIdentity(state, state')
       /\ \A c \in authCalls :
             (c.op = "login" /\ AuthEnds(c) /\ authLast'.err # "none")
             => /\ SameIdentity(state, state')
                /\ state'.isLoading = FALSE
                /\ authLast'.err \in ServiceErrors
                /\ c.phase = "answered" => authLast'.err = c.err
                /\ authLast'.tries = 1]_vars

\* a login failed while a user was signed in
C16_Witness ==
    /\ authLast # Null
    /\ authLast.op = "login"
    /\ authLast.err \in ServiceErrors
    /\ state.isAuthenticated
    /\ ~state.isLoading

\* C17: when logout() has completed the local session is cleared (no user,
\* no token, not authenticated), whether the sign-out succeeded or failed
C17_LogoutClears ==
    [][(authLast' # authLast /\ authLast' # Null /\ authLast'.op = "logout")
       => state' = [state' EXCEPT !.user = Null, !.token = Null,
                                  !.isAuthenticated = FALSE]]_vars

\* C18: updateUser(u) without a signed-in user, or with u somebody else,
\* writes no profile record and leaves the session state unchanged
C18_UpdateUserOwnOnly ==
    [][\A upd \in UpdatedUsers :
         ((updateUser(upd) \/ mockUpdateUser(upd))
          /\ (state.user = Null \/ state.user.id # upd.id))
         => /\ profiles' = profiles
            /\ names' = names
            /\ state' = state]_vars

\* C19: when the page loads with a session of the auth service and the
\* profile fetch fails or finds nothing, the store ends authenticated as a
\* Viewer named after the e-mail address, with isLoading false
C19_ProfileFallback ==
    [][\A c \in authCalls :
         (c.op = "checkSession" /\ c.phase = "profile" /\ AuthEnds(c)
          /\ authLast'.err = "noprofile")
         => /\ state'.isAuthenticated
            /\ state'.user # Null
            /\ state'.user.id = c.uid
            /\ state'.user.role = "Viewer"
            /\ state'.user.name = (IF c.uid = "u1" THEN "ada" ELSE "bo")
            /\ state'.isLoading = FALSE]_vars

\* C20: from a system without profiles on, the signup that finds no profile
\* creates its profile with role Admin and every signup after it, finding
\* one, creates its profile with role Viewer
C20_FirstAdminThenViewer ==
    [][\A c \in authCalls :
         (c.op = "signup" /\ (SignUpServed(c, TRUE) \/ mockSignupDone(c)))
         => \A u \in DOMAIN profiles' \ DOMAIN profiles :
              /\ u = c.uid
              /\ profiles'[u] = (IF DOMAIN profiles = {} THEN "Admin" ELSE "Viewer")]_vars

\* two signups went through: the first profile is an Admin's, the second a
\* Viewer's
C20_Witness ==
    /\ authLast # Null
    /\ authLast.op = "signup"
    /\ authLast.err = "none"
    /\ DOMAIN profiles = Accounts
    /\ \E a, v \in Accounts : profiles[a] = "Admin" /\ profiles[v] = "Viewer"

\* the store shows nobody signed in
Unauthenticated(s) == s.user = Null /\ ~s.isAuthenticated

\* C21: once the store has handled the signed-out notification (the service
\* holds no session and no SIGNED_OUT is on its way) it stays unauthenticated
\* as long as nobody signs in, also when a profile fetch started before the
\* sign-out completes after it
C21_SignedOutStays ==
    [][(/\ impl # "mock"
        /\ session = Null /\ session' = Null
        /\ \A c \in authCalls : c.op # "SIGNED_OUT"
        /\ Unauthenticated(state))
       => Unauthenticated(state')]_vars

\* C22: the role of the session user and of every author returned by
\* getProjectWithAuthor is one of Admin, Editor, Viewer, whatever role the
\* stored profile record carries
C22_RolesEnumerated ==
    /\ user # Null => user.role \in UserRole
    /\ state.user # Null => state.user.role \in UserRole
    /\ (last # Null /\ last.op = "getProjectWithAuthor" /\ last.value # Null)
       => last.value.author.role \in UserRole

\* C23: for the signed-in user, whose role is the one stored, and every
\* project there is, the client allows exactly what the row policies allow:
\* the create check against the INSERT policy, canEdit against the UPDATE
\* policies, canDelete against the DELETE policies
C23_ClientMatchesPolicies ==
    (/\ impl # "mock"
     /\ user # Null
     /\ user.role \in UserRole
     /\ user.id \in DOMAIN profiles
     /\ profiles[user.id] = user.role)
    => /\ (checkPermission(user, "create") = "none") = InsertAllowed(user.id)
       /\ \A i \in 1..Len(db) :
            LET p == getProjectPermissions(formatProject(db[i]), user) IN
              /\ p.canEdit = UpdateAllowed(user.id, db[i])
              /\ p.canDelete = DeleteAllowed(user.id, db[i])

----------------------------------------------------------------------------
(* Projects page: its effect, the fetchProjects runs and the provider *)

\* fetchProjects runs awaiting at the same time
MaxFetches == 2

\* projects created while the page is looked at
MaxPageProjects == 1

\* what ProjectProvider renders with; each render makes a new getAllProjects
\* function, the dependency of the page's effect
ProviderState == [projects |-> projects, isLoading |-> isLoading, user |-> user]

\* a fetchProjects run: tag names it, isMounted is the flag of the effect
\* closure that started it, gone says that the component it belongs to has
\* been unmounted (its setState calls do nothing), phase the request it
\* awaits, list what getAllProjects returned to it
Fetch(tag) ==
    [tag |-> tag, isMounted |-> TRUE, gone |-> FALSE, phase |-> "test",
     list |-> <<>>]

FreeTag == CHOOSE t \in 1..MaxFetches :
             /\ \A f \in fetches : f.tag # t
             /\ \A u \in 1..(t - 1) : \E f \in fetches : f.tag = u

\* the effect's cleanup: isMounted = false in every closure so far
Cleanup(fs) == {[f EXCEPT !.isMounted = FALSE] : f \in fs}

\* the start of fetchProjects: setIsPageLoading(true), setLoadingProgress(10)
fetchProjectsStarts(pg) == [pg EXCEPT !.isPageLoading = TRUE, !.loadingProgress = 10]

\* the finally of fetchProjects
fetchProjectsFinally(pg, isMounted) ==
    IF isMounted
    THEN [pg EXCEPT !.loadingProgress = 100, !.initialLoadComplete = TRUE,
                    !.isPageLoading = FALSE]
    ELSE pg

\* the user opens the Projects page: first render, then the effect
pageMounts ==
    /\ seen = Null
    /\ Cardinality(fetches) < MaxFetches
    /\ page' = fetchProjectsStarts(initialPage)
    /\ fetches' = fetches \cup {Fetch(FreeTag)}
    /\ seen' = ProviderState
    /\ UNCHANGED <<storeVars, permVars, authVars>>

\* the user leaves the page: cleanup; the component's state is gone
pageUnmounts ==
    /\ seen # Null
    /\ page' = initialPage
    /\ fetches' = {[f EXCEPT !.gone = TRUE] : f \in Cleanup(fetches)}
    /\ seen' = Null
    /\ UNCHANGED <<storeVars, permVars, authVars>>

\* ProjectProvider has rendered with a new state: getAllProjects is a new
\* function, so the page's effect is cleaned up and runs again
effectReruns ==
    /\ seen # Null
    /\ seen # ProviderState
    /\ Cardinality(fetches) < MaxFetches
    /\ page' = fetchProjectsStarts(page)
    /\ fetches' = Cleanup(fetches) \cup {Fetch(FreeTag)}
    /\ seen' = ProviderState
    /\ UNCHANGED <<storeVars, permVars, authVars>>

\* the connection test is answered.  An error ends the run; otherwise
\* setLoadingProgress(30) and getAllProjects() follow, whatever isMounted is
\* (a setState of a component that has been unmounted does nothing)
connectionTested(f, reachable) ==
    /\ f \in fetches /\ f.phase = "test"
    /\ IF reachable
       THEN /\ page' = IF f.gone THEN page
                       ELSE [page EXCEPT !.loadingProgress = 30]
            /\ fetches' = (fetches \ {f}) \cup {[f EXCEPT !.phase = "getAll"]}
            /\ Start(NewCall("getAll", f.tag, <<"", "">>, 0, "none"))
            /\ isLoading' = TRUE
       ELSE /\ page' = fetchProjectsFinally(
                         IF f.isMounted
                         THEN [page EXCEPT !.loadingError = "connect",
                                           !.isPageLoading = FALSE,
                                           !.initialLoadComplete = TRUE]
                         ELSE page, f.isMounted)
            /\ fetches' = fetches \ {f}
            /\ UNCHANGED <<calls, nsent, last, isLoading>>
    /\ UNCHANGED <<impl, profiles, user, db, projects, created, deleteAttempts,
                   now, nextId, seen, permVars, authVars>>

\* getAllProjects returns to the run that called it: nothing more when
\* isMounted is false; else setLoadingProgress(60), setProjects, and with a
\* non-empty list the request for the authors' names
fetchGotProjects(c, f, swallowed) ==
    /\ f \in fetches /\ f.phase = "getAll"
    /\ c \in calls /\ FromPage(c) /\ c.id = f.tag
    /\ getAllProjectsReturns(c, swallowed)
    /\ LET allProjects == IF c.err = "none" THEN c.list ELSE <<>> IN
         IF ~f.isMounted
         THEN /\ page' = fetchProjectsFinally(page, FALSE)
              /\ fetches' = fetches \ {f}
         ELSE IF Len(allProjects) > 0
         THEN /\ page' = [page EXCEPT !.loadingProgress = 60,
                                      !.projects = allProjects]
              /\ fetches' = (fetches \ {f}) \cup
                              {[f EXCEPT !.phase = "authors", !.list = allProjects]}
         ELSE /\ page' = fetchProjectsFinally(
                           [page EXCEPT !.loadingProgress = 60, !.projects = <<>>],
                           TRUE)
              /\ fetches' = fetches \ {f}
    /\ UNCHANGED <<impl, profiles, user, db, nsent, created, deleteAttempts,
                   now, nextId, seen, permVars, authVars>>

\* the authors' names arrive (or the request fails or times out)
authorsFetched(f, reachable) ==
    /\ f \in fetches /\ f.phase = "authors"
    /\ page' = IF ~f.isMounted THEN fetchProjectsFinally(page, FALSE)
               ELSE fetchProjectsFinally(
                      [page EXCEPT
                         !.loadingProgress = 90,
                         !.projectAuthors =
                            IF reachable
                            THEN {f.list[i].createdBy : i \in DOMAIN f.list}
                                   \cap DOMAIN names
                            ELSE @], TRUE)
    /\ fetches' = fetches \ {f}
    /\ UNCHANGED <<storeVars, seen, permVars, authVars>>

\* a signed-in Admin, the page not yet on the screen
PageInit ==
    /\ AuthIdle
    /\ PageIdle
    /\ impl = "features"
    /\ profiles = InitialProfiles
    /\ names = InitialNames
    /\ user = User("u1", "Admin")
    /\ db = <<>>
    /\ projects = <<>>
    /\ isLoading = FALSE
    /\ calls = {}
    /\ nsent = 0
    /\ last = Null
    /\ created = {}
    /\ deleteAttempts = {}
    /\ now = 1
    /\ nextId = 1
    /\ permArgs = [project |-> Null, user |-> Null]
    /\ permRes = Null

PageNext ==
    \/ pageMounts
    \/ pageUnmounts
    \/ effectReruns
    \/ \E input \in CreateInputs :
         Cardinality(created) < MaxPageProjects /\ createProject(input)
    \/ \E f \in fetches, reachable \in BOOLEAN :
         \/ connectionTested(f, reachable)
         \/ authorsFetched(f, reachable)
    \/ \E c \in calls :
         \/ ServeInsert(c)
         \/ ServeSelectAll(c)
         \/ RemoteFails(c)
         \/ createProjectSettled(c)
         \/ \E f \in fetches, swallowed \in BOOLEAN : fetchGotProjects(c, f, swallowed)

PageSpec == PageInit /\ [][PageNext]_vars

----------------------------------------------------------------------------
(* Projects page: properties *)

\* C24: once the effect's cleanup has run, no response to a request a
\* fetchProjects run of that effect made changes the page's state (projects,
\* projectAuthors, loadingProgress, loadingError, isPageLoading,
\* initialLoadComplete)
C24_LateResponseIgnored ==
    [][\A f \in fetches :
         (/\ ~f.isMounted
          /\ \/ \E reachable \in BOOLEAN : connectionTested(f, reachable)
             \/ \E reachable \in BOOLEAN : authorsFetched(f, reachable)
             \/ \E c \in calls, swallowed \in BOOLEAN :
                  fetchGotProjects(c, f, swallowed))
         => page' = page]_vars

----------------------------------------------------------------------------
(* Session store: properties under overlapping calls *)

\* C25: in every state of the session store, isAuthenticated is true
\* exactly when user is not null, and exactly when token is not null
C25_AuthenticatedIffUserAndToken ==
    /\ state.isAuthenticated <=> state.user # Null
    /\ state.isAuthenticated <=> state.token # Null

\* the auth service, the profiles table and the timers answer, and the
\* continuations of the calls run
AuthResponds ==
    \E c \in authCalls :
       \/ mockCheckStored(c)
       \/ mockLoginDone(c)
       \/ mockSignupDone(c)
       \/ loginSettled(c)
       \/ signupSettled(c)
       \/ logoutSettled(c)
       \/ updateUserSettled(c)
       \/ SignedOutNotified(c)
       \/ \E found \in BOOLEAN : SessionProfile(c, found)
       \/ \E found \in BOOLEAN : SignedInNotified(c, found)
       \/ \E reachable \in BOOLEAN :
            \/ SessionChecked(c, reachable)
            \/ SignInServed(c, reachable)
            \/ SignUpServed(c, reachable)
            \/ SignOutServed(c, reachable)
            \/ ProfileUpdateServed(c, reachable)
            \/ RoleUpdateServed(c, reachable)

\* every open call is answered and continued in the end
AuthLiveSpec == AuthInit /\ [][AuthNext]_vars /\ WF_vars(AuthResponds)

\* C26: once the startup check and every login, signup and logout call have
\* been answered and have run to their end, isLoading is false in the end
C26_LoadingEnds == (authCalls = {}) ~> ~state.isLoading

----------------------------------------------------------------------------
(* Projects page: does it come to rest *)

\* React renders, the remote store answers, the continuations run
PageResponds ==
    \/ effectReruns
    \/ \E f \in fetches, reachable \in BOOLEAN :
         \/ connectionTested(f, reachable)
         \/ authorsFetched(f, reachable)
    \/ \E c \in calls :
         \/ ServeInsert(c)
         \/ ServeSelectAll(c)
         \/ RemoteFails(c)
         \/ createProjectSettled(c)
         \/ \E f \in fetches, swallowed \in BOOLEAN : fetchGotProjects(c, f, swallowed)

PageLiveSpec == PageInit /\ [][PageNext]_vars /\ WF_vars(PageResponds)

\* what the user does: open the page, leave it, create a project
UserActs ==
    \/ pageMounts
    \/ pageUnmounts
    \/ \E input \in CreateInputs : createProject(input)

\* C27: with every call answered and the user doing nothing any more, the
\* page calls getAllProjects finitely often: in the end no fetchProjects run
\* is under way, and the page, if it is shown, has isPageLoading false
C27_PageSettles ==
    <>[][~UserActs]_vars
    => <>[](fetches = {} /\ (seen # Null => ~page.isPageLoading))

----------------------------------------------------------------------------
(* Project store under overlapping calls *)

\* C28: isLoading is true whenever a createProject, updateProject,
\* deleteProject or getAllProjects call is open, also when two of them
\* overlap and one settles first
C28_LoadingWhilePending ==
    (\E c \in calls : c.op \in {"create", "update", "delete", "getAll"})
    => isLoading

\* C29: a project in the local list that this client created leaves the
\* list only by this client's deleteProject, also when the response of a
\* getAllProjects call made before the create arrives after the create's
C29_CreatedStaysListed ==
    [][\A id \in IdsOf(projects) \cap KnownIds :
         id \in IdsOf(projects')
         \/ \E c \in calls : c.op = "delete" /\ c.id = id]_vars

----------------------------------------------------------------------------
(* Profiles table: who changes roles *)

\* the stored role of the user the auth service's session belongs to
StoredRole(s) ==
    IF s # Null /\ s.uid \in DOMAIN profiles THEN profiles[s.uid] ELSE Null

\* C30: under the profile policies no updateUser or updateUserRole of a
\* user whose stored role is not Admin changes the stored role of a profile,
\* that user's own included
C30_OnlyAdminChangesRoles ==
    [][impl # "mock"
       => \A u \in DOMAIN profiles \cap DOMAIN profiles' :
            profiles'[u] # profiles[u] => StoredRole(session) = "Admin"]_vars

============================================================================
